---- MODULE Spec2Model ----
(***************************************************************************)
(* NftService (packages/sdk/src/nft/nft.service.ts): the process-wide      *)
(* NftInfo cache, cacheGet, transferNft, the two mints and the two         *)
(* collection creations, as a state machine.  Every async call is cut at   *)
(* its awaits: one action per collaborator answer, each action running     *)
(* the synchronous code up to the next await.                              *)
(***************************************************************************)
EXTENDS Integers, Sequences, FiniteSets, TLC

\* ---------------------------------------------------------------- bounds
MaxCalls == 3       \* calls made in one behaviour of Spec
ShapeLen == 5       \* longest tokenIDs list of a request in SpecShape
ShapeAmounts == 2   \* longest amounts list of a request in SpecShape
OpsCalls == 2       \* calls made in one behaviour of SpecOps

\* ------------------------------------------------------------ value sets
Procs == {"p1", "p2"}                 \* concurrent callers
Addresses == {"0xABC", "0x123"}       \* contract addresses
ChainIds == {1, 137}
Receivers == {"0xDEF"}
TokenIds == {1, 2}
Amounts == {5, 10}
PrivateKeys == {"pk"}                 \* string credentials
Signers == {"signer"}                 \* JsonRpcSigner handles
NftTypes == {"ERC721", "ERC1155", "UNKNOWN"}

\* An optional JS value: <<>> is undefined, <<v>> is v.
Undefined == <<>>
Some(v) == <<v>>
Defined(o) == o # <<>>

SeqsUpTo(S, n) == UNION {[1..k -> S] : k \in 0..n}

\* TransferRequest (types.ts): amounts is optional
TransferRequests(tokenIDLists, amountLists) ==
    [contractAddress : Addresses,
     receiver : Receivers,
     tokenIDs : tokenIDLists,
     amounts : {Undefined} \cup {Some(s) : s \in amountLists}]

\* the arguments of a transferNft call
TransferArgs(requests, credentials) ==
    [transferRequest : requests, chainId : ChainIds, pkOrSigner : credentials]

\* Spec: concurrent calls on two request shapes, none or one token id, for
\* the contract 0xABC on every chain and the contract 0x123 on chain 1
ConcurrentArgs ==
    {arg \in TransferArgs({r \in TransferRequests({<<>>, <<1>>}, {<<5>>}) :
                              Defined(r.amounts)},
                          Signers) :
        arg.transferRequest.contractAddress = "0xABC" \/ arg.chainId = 1}

\* SpecShape: one call on requests of every shape
ShapeArgs ==
    TransferArgs(TransferRequests(SeqsUpTo(TokenIds, ShapeLen),
                                  SeqsUpTo(Amounts, ShapeAmounts)),
                 PrivateKeys \cup Signers)

VARIABLES
    cache,      \* NftService.cache: contract address -> NftInfo
    call,       \* per caller: the transferNft invocation in progress
    registry,   \* what NftProvider.getNftType has answered so far
    returned,   \* (address, chainID) -> the NftInfo cacheGet first returned
    calls       \* number of calls the callers will still make

vars == <<cache, call, registry, returned, calls>>

\* ------------------------------------------------------------ JavaScript
\* s[0]: undefined past the end of the array
At0(s) == IF Len(s) >= 1 THEN Some(s[1]) ELSE Undefined

\* Array.prototype.join(): the elements as strings, separated by ","
RECURSIVE Join(_)
Join(s) ==
    IF s = <<>> THEN ""
    ELSE IF Len(s) = 1 THEN ToString(s[1])
    ELSE ToString(s[1]) \o "," \o Join(Tail(s))

\* ---------------------------------------------------------------- errors
NotAnNftContract(contractAddress) ==
    [error |-> "NotAnNftContract",
     message |-> contractAddress \o " is not an NFT contract"]

InvalidTransferShape(tokenIDs) ==
    [error |-> "InvalidTransferShape",
     message |-> "ERC 721 transfer supports exactly 1 tokenID, received "
                 \o Join(tokenIDs)]

UnsupportedSchema(schema) ==
    [error |-> "UnsupportedSchema",
     message |-> "Unsupported NFT type: " \o schema]

\* reading [0] of an undefined amounts
TypeError == [error |-> "TypeError", message |-> "amounts is undefined"]

\* a rejection of an awaited collaborator, propagated as it is
Rejected(name) == [error |-> name, message |-> "rejected"]

\* ---------------------------------------------------------- collaborators
\* getWallet: a string is a private key and makes a Wallet on the chain's
\* provider; anything else is a signer and is returned as it is
getWallet(pkOrSigner, chainID) ==
    IF pkOrSigner \in PrivateKeys
    THEN [kind |-> "Wallet", key |-> pkOrSigner, provider |-> Some(chainID)]
    ELSE [kind |-> "JsonRpcSigner", key |-> pkOrSigner, provider |-> Undefined]

\* the address wallet.getAddress() resolves to
AddressOf(wallet) == "0x" \o wallet.key

\* the answers NftProvider.getNftType may give: a contract's type on a chain
\* does not change, so a pair answered before gets the same answer
GetNftTypeAnswers(contractAddress, chainID) ==
    IF <<contractAddress, chainID>> \in DOMAIN registry
    THEN {registry[<<contractAddress, chainID>>]}
    ELSE NftTypes

\* populateTransaction encodes the arguments and rejects an undefined one
Encodable(method, args) ==
    CASE method = "safeTransferFrom(address,address,uint256)" ->
            Defined(args.tokenId)
      [] method = "safeBatchTransferFrom" ->
            Defined(args.amounts)
      [] method = "safeTransferFrom" ->
            Defined(args.id) /\ Defined(args.amount)

\* the PopulatedTransaction of a call on a contract handle
PopulatedTransaction(contract, method, args) ==
    [to |-> contract.address, data |-> [method |-> method, args |-> args]]

\* TransactionService.prepareTransaction fills in fee and nonce
PreparedTransaction(txRequest) == [request |-> txRequest, feeAndNonce |-> "filled"]

\* the hash of the transaction wallet.sendTransaction broadcasts
TransactionHash(preparedTx) == [hashOf |-> preparedTx]

\* ------------------------------------------------------------------ cache
\* the factory chosen and the schema stored from the wrong branch
NftInfoSwapped(nftType, contractAddress, chainID) ==
    [contract |-> [factory |-> IF nftType = "ERC1155" THEN "LiqERC721__factory"
                               ELSE "LiqERC1155__factory",
                   address |-> contractAddress,
                   provider |-> chainID],
     schema |-> IF nftType = "ERC1155" THEN "ERC721" ELSE "ERC1155"]

\* the NftInfo cacheGet stores for a detected type
NftInfo(nftType, contractAddress, chainID) ==
    [contract |-> [factory |-> IF nftType = "ERC1155" THEN "LiqERC1155__factory"
                               ELSE "LiqERC721__factory",
                   address |-> contractAddress,
                   provider |-> chainID],
     schema |-> nftType]

\* a lookup that takes the entry's chain into account
CacheHasOnChain(c, contractAddress, chainID) ==
    /\ contractAddress \in DOMAIN c
    /\ c[contractAddress].contract.provider = chainID

\* if (NftService.cache[contractAddress]): the key is the address alone
CacheHas(c, contractAddress, chainID) == contractAddress \in DOMAIN c

\* NftService.cache = { [contractAddress]: info }: a cache of one entry
CacheSetOnly(c, contractAddress, info) ==
    [a \in {contractAddress} |-> info]

\* NftService.cache[contractAddress] = info
CacheSet(c, contractAddress, info) ==
    [a \in DOMAIN c \cup {contractAddress} |->
        IF a = contractAddress THEN info ELSE c[a]]

\* ------------------------------------------------------------ call record
\* rec is a transferNft call on contractAddress that got a detected type
\* from getNftType and then ended at the length check, at prepareTransaction
\* or at sendTransaction
EndedAfterDetection(rec, contractAddress) ==
    /\ rec.pc = "done"
    /\ rec.op = "transferNft"
    /\ rec.contractAddress = contractAddress
    /\ rec.nftType \in {Some("ERC721"), Some("ERC1155")}
    /\ ~rec.result[1].ok
    /\ rec.result[1].value.error \in
          {"InvalidTransferShape", "PreparationFailed", "BroadcastFailed"}

NewCall(req, chainId, pkOrSigner) ==
    [pc |-> "start",
     op |-> "transferNft",
     afterFailure |-> \E q \in DOMAIN call :
                         EndedAfterDetection(call[q], req.contractAddress),
     contractAddress |-> req.contractAddress,
     receiver |-> req.receiver,
     tokenIDs |-> req.tokenIDs,
     amounts |-> req.amounts,
     chainId |-> chainId,
     pkOrSigner |-> pkOrSigner,
     again |-> <<req.contractAddress, chainId>> \in DOMAIN returned,
     nftType |-> Undefined,
     info |-> Undefined,
     cacheThen |-> Undefined,
     owner |-> Undefined,
     populate |-> Undefined,
     tx |-> Undefined,
     txRequest |-> Undefined,
     preparedTx |-> Undefined,
     result |-> Undefined,
     log |-> <<>>]

Throw(rec, err) == [rec EXCEPT !.pc = "done", !.result = Some([ok |-> FALSE, value |-> err])]

Return(rec, v) == [rec EXCEPT !.pc = "done", !.result = Some([ok |-> TRUE, value |-> v])]

\* cacheGet has returned info: transferNft goes on to getWallet and awaits
\* wallet.getAddress()
AfterCacheGet(rec, c, info) ==
    [rec EXCEPT !.pc = "getAddress",
                !.info = Some(info),
                !.cacheThen = Some(c),
                !.log = Append(@, "getAddress")]

\* await contract.populateTransaction[method](args)
Populate(rec, owner, method, args) ==
    [rec EXCEPT !.pc = "populate",
                !.owner = Some(owner),
                !.populate = Some([method |-> method, args |-> args]),
                !.log = Append(@, "populate")]

\* the length check as "more than one"
TransferERC721AtMostOne(rec, owner) ==
    IF Len(rec.tokenIDs) > 1
    THEN Throw([rec EXCEPT !.owner = Some(owner)], InvalidTransferShape(rec.tokenIDs))
    ELSE Populate(rec, owner, "safeTransferFrom(address,address,uint256)",
                  [from |-> owner, to |-> rec.receiver,
                   tokenId |-> At0(rec.tokenIDs)])

\* a wrong length answered with an empty hash instead of an error
TransferERC721Silent(rec, owner) ==
    IF Len(rec.tokenIDs) # 1
    THEN Return([rec EXCEPT !.owner = Some(owner)], TransactionHash(Undefined))
    ELSE Populate(rec, owner, "safeTransferFrom(address,address,uint256)",
                  [from |-> owner, to |-> rec.receiver,
                   tokenId |-> At0(rec.tokenIDs)])

\* case NftType.ERC721
TransferERC721(rec, owner) ==
    IF Len(rec.tokenIDs) # 1
    THEN Throw([rec EXCEPT !.owner = Some(owner)], InvalidTransferShape(rec.tokenIDs))
    ELSE Populate(rec, owner, "safeTransferFrom(address,address,uint256)",
                  [from |-> owner, to |-> rec.receiver,
                   tokenId |-> At0(rec.tokenIDs)])

\* an empty tokenIDs list refused before anything is built
TransferERC1155Validating(rec, owner) ==
    IF Len(rec.tokenIDs) = 0
    THEN Throw([rec EXCEPT !.owner = Some(owner)], InvalidTransferShape(rec.tokenIDs))
    ELSE IF Len(rec.tokenIDs) > 1
    THEN Populate(rec, owner, "safeBatchTransferFrom",
                  [from |-> owner, to |-> rec.receiver,
                   ids |-> rec.tokenIDs, amounts |-> rec.amounts,
                   data |-> "0x"])
    ELSE IF ~Defined(rec.amounts)
    THEN Throw([rec EXCEPT !.owner = Some(owner)], TypeError)
    ELSE Populate(rec, owner, "safeTransferFrom",
                  [from |-> owner, to |-> rec.receiver,
                   id |-> At0(rec.tokenIDs),
                   amount |-> At0(rec.amounts[1]),
                   data |-> "0x"])

\* the batch branch taken from one token id on
TransferERC1155BatchFromOne(rec, owner) ==
    IF Len(rec.tokenIDs) >= 1
    THEN Populate(rec, owner, "safeBatchTransferFrom",
                  [from |-> owner, to |-> rec.receiver,
                   ids |-> rec.tokenIDs, amounts |-> rec.amounts,
                   data |-> "0x"])
    ELSE IF ~Defined(rec.amounts)
    THEN Throw([rec EXCEPT !.owner = Some(owner)], TypeError)
    ELSE Populate(rec, owner, "safeTransferFrom",
                  [from |-> owner, to |-> rec.receiver,
                   id |-> At0(rec.tokenIDs),
                   amount |-> At0(rec.amounts[1]),
                   data |-> "0x"])

\* case NftType.ERC1155
TransferERC1155(rec, owner) ==
    IF Len(rec.tokenIDs) > 1
    THEN Populate(rec, owner, "safeBatchTransferFrom",
                  [from |-> owner, to |-> rec.receiver,
                   ids |-> rec.tokenIDs, amounts |-> rec.amounts,
                   data |-> "0x"])
    ELSE IF ~Defined(rec.amounts)
    THEN Throw([rec EXCEPT !.owner = Some(owner)], TypeError)
    ELSE Populate(rec, owner, "safeTransferFrom",
                  [from |-> owner, to |-> rec.receiver,
                   id |-> At0(rec.tokenIDs),
                   amount |-> At0(rec.amounts[1]),
                   data |-> "0x"])

\* the switch on schema, run when the owner address is known
Dispatch(rec, owner) ==
    LET schema == rec.info[1].schema
    IN  CASE schema = "ERC721" -> TransferERC721(rec, owner)
          [] schema = "ERC1155" -> TransferERC1155(rec, owner)
          [] OTHER -> Throw([rec EXCEPT !.owner = Some(owner)],
                            UnsupportedSchema(schema))

\* ---------------------------------------------------------------- actions
Init ==
    /\ cache = [a \in {} |-> Undefined]
    /\ call = [p \in Procs |-> [pc |-> "idle"]]
    /\ registry = [k \in {} |-> "UNKNOWN"]
    /\ returned = [k \in {} |-> Undefined]
    /\ calls = MaxCalls

Remember(k, info) ==
    IF k \in DOMAIN returned THEN returned
    ELSE [j \in DOMAIN returned \cup {k} |-> IF j = k THEN info ELSE returned[j]]

\* transferNft is called: it runs into cacheGet, which returns the cached
\* entry or asks NftProvider.getNftType
TransferNft(p, args) ==
    /\ call[p].pc \in {"idle", "done"}
    /\ calls > 0
    /\ \E arg \in args :
         LET req == arg.transferRequest
             chainId == arg.chainId
             rec == NewCall(req, chainId, arg.pkOrSigner)
             a == req.contractAddress
         IN  IF CacheHas(cache, a, chainId)
             THEN /\ call' = [call EXCEPT ![p] = AfterCacheGet(rec, cache, cache[a])]
                  /\ returned' = Remember(<<a, chainId>>, cache[a])
             ELSE /\ call' = [call EXCEPT ![p] =
                                [rec EXCEPT !.pc = "getNftType",
                                            !.log = Append(@, "getNftType")]]
                  /\ UNCHANGED returned
    /\ calls' = calls - 1
    /\ UNCHANGED <<cache, registry>>

\* the entry stored before the type is looked at, for UNKNOWN too
GetNftTypeReturnsCachingUnknown(p) ==
    /\ call[p].pc = "getNftType"
    /\ LET rec == call[p]
           a == rec.contractAddress
           k == <<a, rec.chainId>>
       IN  \E nftType \in GetNftTypeAnswers(a, rec.chainId) :
             /\ registry' = [j \in DOMAIN registry \cup {k} |->
                               IF j = k THEN nftType ELSE registry[j]]
             /\ cache' = CacheSet(cache, a, NftInfo(nftType, a, rec.chainId))
             /\ IF nftType # "UNKNOWN"
                THEN /\ call' = [call EXCEPT ![p] =
                                    AfterCacheGet([rec EXCEPT !.nftType = Some(nftType)],
                                                  cache', cache'[a])]
                     /\ returned' = Remember(k, cache'[a])
                ELSE /\ call' = [call EXCEPT ![p] =
                                    Throw([rec EXCEPT !.nftType = Some(nftType)],
                                          NotAnNftContract(a))]
                     /\ UNCHANGED returned
    /\ UNCHANGED calls

\* cacheGet without the throw: an UNKNOWN type goes on like the others
GetNftTypeReturnsUnchecked(p) ==
    /\ call[p].pc = "getNftType"
    /\ LET rec == call[p]
           a == rec.contractAddress
           k == <<a, rec.chainId>>
       IN  \E nftType \in GetNftTypeAnswers(a, rec.chainId) :
             /\ registry' = [j \in DOMAIN registry \cup {k} |->
                               IF j = k THEN nftType ELSE registry[j]]
             /\ cache' = CacheSet(cache, a, NftInfo(nftType, a, rec.chainId))
             /\ call' = [call EXCEPT ![p] =
                           AfterCacheGet([rec EXCEPT !.nftType = Some(nftType)],
                                         cache', cache'[a])]
             /\ returned' = Remember(k, cache'[a])
    /\ UNCHANGED calls

\* NftProvider.getNftType answers: cacheGet stores and returns the NftInfo,
\* or throws for UNKNOWN
GetNftTypeReturns(p) ==
    /\ call[p].pc = "getNftType"
    /\ LET rec == call[p]
           a == rec.contractAddress
           k == <<a, rec.chainId>>
       IN  \E nftType \in GetNftTypeAnswers(a, rec.chainId) :
             /\ registry' = [j \in DOMAIN registry \cup {k} |->
                               IF j = k THEN nftType ELSE registry[j]]
             /\ IF nftType # "UNKNOWN"
                THEN LET info == NftInfo(nftType, a, rec.chainId)
                     IN  /\ cache' = CacheSet(cache, a, info)
                         /\ call' = [call EXCEPT ![p] =
                                       AfterCacheGet([rec EXCEPT !.nftType = Some(nftType)],
                                                     cache', cache'[a])]
                         /\ returned' = Remember(k, cache'[a])
                ELSE /\ call' = [call EXCEPT ![p] =
                                    Throw([rec EXCEPT !.nftType = Some(nftType)],
                                          NotAnNftContract(a))]
                     /\ UNCHANGED <<cache, returned>>
    /\ UNCHANGED calls

GetNftTypeRejects(p) ==
    /\ call[p].pc = "getNftType"
    /\ call' = [call EXCEPT ![p] = Throw(call[p], Rejected("getNftType"))]
    /\ UNCHANGED <<cache, registry, returned, calls>>

\* wallet.getAddress() answers: the switch on schema runs
GetAddressReturns(p) ==
    /\ call[p].pc = "getAddress"
    /\ LET wallet == getWallet(call[p].pkOrSigner, call[p].chainId)
       IN  call' = [call EXCEPT ![p] = Dispatch(call[p], AddressOf(wallet))]
    /\ UNCHANGED <<cache, registry, returned, calls>>

\* only a JsonRpcSigner asks the network for its address
GetAddressRejects(p) ==
    /\ call[p].pc = "getAddress"
    /\ getWallet(call[p].pkOrSigner, call[p].chainId).kind = "JsonRpcSigner"
    /\ call' = [call EXCEPT ![p] = Throw(call[p], Rejected("getAddress"))]
    /\ UNCHANGED <<cache, registry, returned, calls>>

\* the populated transaction handed to prepareTransaction as it is, without
\* from and chainId
PopulateReturnsBare(p) ==
    /\ call[p].pc = "populate"
    /\ LET rec == call[p]
           m == rec.populate[1].method
           args == rec.populate[1].args
           tx == PopulatedTransaction(rec.info[1].contract, m, args)
           txRequest == [to |-> tx.to, data |-> tx.data]
       IN  /\ Encodable(m, args)
           /\ call' = [call EXCEPT ![p] =
                         [rec EXCEPT !.pc = "prepare",
                                     !.tx = Some(tx),
                                     !.txRequest = Some(txRequest),
                                     !.log = Append(@, "prepare")]]
    /\ UNCHANGED <<cache, registry, returned, calls>>

\* populateTransaction answers: prepareTransaction is called with the
\* transaction, from and chainId
PopulateReturns(p) ==
    /\ call[p].pc = "populate"
    /\ LET rec == call[p]
           m == rec.populate[1].method
           args == rec.populate[1].args
           tx == PopulatedTransaction(rec.info[1].contract, m, args)
           txRequest == [to |-> tx.to, data |-> tx.data,
                         from |-> rec.owner[1], chainId |-> rec.chainId]
       IN  /\ Encodable(m, args)
           /\ call' = [call EXCEPT ![p] =
                         [rec EXCEPT !.pc = "prepare",
                                     !.tx = Some(tx),
                                     !.txRequest = Some(txRequest),
                                     !.log = Append(@, "prepare")]]
    /\ UNCHANGED <<cache, registry, returned, calls>>

PopulateRejects(p) ==
    /\ call[p].pc = "populate"
    /\ call' = [call EXCEPT ![p] = Throw(call[p], Rejected("populateTransaction"))]
    /\ UNCHANGED <<cache, registry, returned, calls>>

\* prepareTransaction answers: wallet.sendTransaction is called
PrepareReturns(p) ==
    /\ call[p].pc = "prepare"
    /\ call' = [call EXCEPT ![p] =
                  [call[p] EXCEPT !.pc = "send",
                                  !.preparedTx = Some(PreparedTransaction(call[p].txRequest[1])),
                                  !.log = Append(@, "send")]]
    /\ UNCHANGED <<cache, registry, returned, calls>>

\* a rejected preparation that also drops the contract's cache entry
PrepareRejectsEvicting(p) ==
    /\ call[p].pc = "prepare"
    /\ call' = [call EXCEPT ![p] = Throw(call[p], Rejected("PreparationFailed"))]
    /\ cache' = [a \in DOMAIN cache \ {call[p].contractAddress} |-> cache[a]]
    /\ UNCHANGED <<registry, returned, calls>>

PrepareRejects(p) ==
    /\ call[p].pc = "prepare"
    /\ call' = [call EXCEPT ![p] = Throw(call[p], Rejected("PreparationFailed"))]
    /\ UNCHANGED <<cache, registry, returned, calls>>

\* sendTransaction answers: transferNft returns the hash
SendReturns(p) ==
    /\ call[p].pc = "send"
    /\ call' = [call EXCEPT ![p] =
                  Return(call[p], TransactionHash(call[p].preparedTx[1]))]
    /\ UNCHANGED <<cache, registry, returned, calls>>

\* a failed broadcast that is sent once more
SendRejectsRetrying(p) ==
    /\ call[p].pc = "send"
    /\ call' = [call EXCEPT ![p] = [call[p] EXCEPT !.log = Append(@, "send")]]
    /\ UNCHANGED <<cache, registry, returned, calls>>

\* a failed broadcast that also drops the contract's cache entry
SendRejectsEvicting(p) ==
    /\ call[p].pc = "send"
    /\ call' = [call EXCEPT ![p] = Throw(call[p], Rejected("BroadcastFailed"))]
    /\ cache' = [a \in DOMAIN cache \ {call[p].contractAddress} |-> cache[a]]
    /\ UNCHANGED <<registry, returned, calls>>

SendRejects(p) ==
    /\ call[p].pc = "send"
    /\ call' = [call EXCEPT ![p] = Throw(call[p], Rejected("BroadcastFailed"))]
    /\ UNCHANGED <<cache, registry, returned, calls>>

\* concurrent callers
Next ==
    \/ \E p \in DOMAIN call : TransferNft(p, ConcurrentArgs)
    \/ \E p \in DOMAIN call : GetNftTypeReturns(p)
    \/ \E p \in DOMAIN call : GetNftTypeRejects(p)
    \/ \E p \in DOMAIN call : GetAddressReturns(p)
    \/ \E p \in DOMAIN call : GetAddressRejects(p)
    \/ \E p \in DOMAIN call : PopulateReturns(p)
    \/ \E p \in DOMAIN call : PopulateRejects(p)
    \/ \E p \in DOMAIN call : PrepareReturns(p)
    \/ \E p \in DOMAIN call : PrepareRejects(p)
    \/ \E p \in DOMAIN call : SendReturns(p)
    \/ \E p \in DOMAIN call : SendRejects(p)

Spec == Init /\ [][Next]_vars

\* one caller making one call, on requests of every shape
InitShape ==
    /\ cache = [a \in {} |-> Undefined]
    /\ call = [p \in {"p1"} |-> [pc |-> "idle"]]
    /\ registry = [k \in {} |-> "UNKNOWN"]
    /\ returned = [k \in {} |-> Undefined]
    /\ calls = 1

NextShape ==
    \/ \E p \in DOMAIN call : TransferNft(p, ShapeArgs)
    \/ \E p \in DOMAIN call : GetNftTypeReturns(p)
    \/ \E p \in DOMAIN call : GetNftTypeRejects(p)
    \/ \E p \in DOMAIN call : GetAddressReturns(p)
    \/ \E p \in DOMAIN call : GetAddressRejects(p)
    \/ \E p \in DOMAIN call : PopulateReturns(p)
    \/ \E p \in DOMAIN call : PopulateRejects(p)
    \/ \E p \in DOMAIN call : PrepareReturns(p)
    \/ \E p \in DOMAIN call : PrepareRejects(p)
    \/ \E p \in DOMAIN call : SendReturns(p)
    \/ \E p \in DOMAIN call : SendRejects(p)

SpecShape == InitShape /\ [][NextShape]_vars

\* ------------------------------------------- mint and collection creation
Uris == {"ipfs://u"}
TokenNames == {"Liq"}
TokenSymbols == {"LIQ"}

\* the arguments of a mintERC1155Token call: one token id and amount, chain 1
MintERC1155Args ==
    [mintRequest : [contractAddress : Addresses, recipient : Receivers,
                    id : {1}, amount : {5}],
     chainId : {1}, pkOrSigner : Signers]

\* the arguments of a mintERC721Token call
MintERC721Args ==
    [mintRequest : [contractAddress : Addresses, recipient : Receivers,
                    uri : Uris],
     chainId : {1}, pkOrSigner : Signers]

\* the arguments of a createERC1155Collection call
CreateERC1155Args ==
    [createRequest : [uri : Uris], chainId : {1}, pkOrSigner : Signers]

\* the arguments of a createERC721Collection call
CreateERC721Args ==
    [createRequest : [tokenName : TokenNames, tokenSymbol : TokenSymbols],
     chainId : {1}, pkOrSigner : PrivateKeys]

\* factory.connect(AddressZero, getChainProvider(chainId)).attach(address)
Attach(factory, contractAddress, chainID) ==
    [factory |-> factory, address |-> contractAddress, provider |-> chainID]

\* new ethers.ContractFactory(abi, bytecode, getWallet(pkOrSigner, chainId))
ContractFactory(factory, pkOrSigner, chainID) ==
    [factory |-> factory, signer |-> getWallet(pkOrSigner, chainID)]

\* the deployment transaction contractFactory.deploy(args) sends
DeployTransaction(contractFactory, args) ==
    [deploy |-> contractFactory.factory, args |-> args,
     signer |-> contractFactory.signer]

\* a mint call up to its first await, wallet.getAddress()
NewMint(op, factory, req, chainId, pkOrSigner) ==
    [pc |-> "mintGetAddress",
     op |-> op,
     mintRequest |-> req,
     chainId |-> chainId,
     pkOrSigner |-> pkOrSigner,
     contract |-> Attach(factory, req.contractAddress, chainId),
     owner |-> Undefined,
     populate |-> Undefined,
     tx |-> Undefined,
     txRequest |-> Undefined,
     preparedTx |-> Undefined,
     result |-> Undefined,
     log |-> <<"getAddress">>]

\* a collection creation call up to its first await
NewCreate(op, request, factory, req, chainId, pkOrSigner) ==
    [pc |-> IF request = "deploy" THEN "deploy" ELSE "createGetAddress",
     op |-> op,
     createRequest |-> req,
     chainId |-> chainId,
     pkOrSigner |-> pkOrSigner,
     contractFactory |-> ContractFactory(factory, pkOrSigner, chainId),
     owner |-> Undefined,
     deploy |-> Undefined,
     result |-> Undefined,
     log |-> <<request>>]

\* mintERC1155Token is called
MintERC1155Token(p, args) ==
    /\ call[p].pc \in {"idle", "done"}
    /\ calls > 0
    /\ \E arg \in args :
         call' = [call EXCEPT ![p] =
                    NewMint("mintERC1155Token", "LiqERC1155__factory",
                            arg.mintRequest, arg.chainId, arg.pkOrSigner)]
    /\ calls' = calls - 1
    /\ UNCHANGED <<cache, registry, returned>>

\* mintERC721Token is called
MintERC721Token(p, args) ==
    /\ call[p].pc \in {"idle", "done"}
    /\ calls > 0
    /\ \E arg \in args :
         call' = [call EXCEPT ![p] =
                    NewMint("mintERC721Token", "LiqERC721__factory",
                            arg.mintRequest, arg.chainId, arg.pkOrSigner)]
    /\ calls' = calls - 1
    /\ UNCHANGED <<cache, registry, returned>>

\* the call a mint builds: mint(recipient, id, amount, "0x") or
\* safeMint(recipient, uri)
MintCall(rec) ==
    IF rec.op = "mintERC1155Token"
    THEN [method |-> "mint",
          args |-> [recipient |-> rec.mintRequest.recipient,
                    id |-> rec.mintRequest.id,
                    amount |-> rec.mintRequest.amount,
                    data |-> "0x"]]
    ELSE [method |-> "safeMint",
          args |-> [recipient |-> rec.mintRequest.recipient,
                    uri |-> rec.mintRequest.uri]]

\* wallet.getAddress() answers a mint: populateTransaction is called
MintGetAddressReturns(p) ==
    /\ call[p].pc = "mintGetAddress"
    /\ LET wallet == getWallet(call[p].pkOrSigner, call[p].chainId)
       IN  call' = [call EXCEPT ![p] =
                      [call[p] EXCEPT !.pc = "mintPopulate",
                                      !.owner = Some(AddressOf(wallet)),
                                      !.populate = Some(MintCall(call[p])),
                                      !.log = Append(@, "populate")]]
    /\ UNCHANGED <<cache, registry, returned, calls>>

MintGetAddressRejects(p) ==
    /\ call[p].pc = "mintGetAddress"
    /\ getWallet(call[p].pkOrSigner, call[p].chainId).kind = "JsonRpcSigner"
    /\ call' = [call EXCEPT ![p] = Throw(call[p], Rejected("getAddress"))]
    /\ UNCHANGED <<cache, registry, returned, calls>>

\* populateTransaction answers a mint: prepareTransaction is called with the
\* transaction, from and chainId
MintPopulateReturns(p) ==
    /\ call[p].pc = "mintPopulate"
    /\ LET rec == call[p]
           tx == PopulatedTransaction(rec.contract, rec.populate[1].method,
                                      rec.populate[1].args)
           txRequest == [to |-> tx.to, data |-> tx.data,
                         from |-> rec.owner[1], chainId |-> rec.chainId]
       IN  call' = [call EXCEPT ![p] =
                      [rec EXCEPT !.pc = "mintPrepare",
                                  !.tx = Some(tx),
                                  !.txRequest = Some(txRequest),
                                  !.log = Append(@, "prepare")]]
    /\ UNCHANGED <<cache, registry, returned, calls>>

MintPopulateRejects(p) ==
    /\ call[p].pc = "mintPopulate"
    /\ call' = [call EXCEPT ![p] = Throw(call[p], Rejected("populateTransaction"))]
    /\ UNCHANGED <<cache, registry, returned, calls>>

\* prepareTransaction answers a mint: wallet.sendTransaction is called
MintPrepareReturns(p) ==
    /\ call[p].pc = "mintPrepare"
    /\ call' = [call EXCEPT ![p] =
                  [call[p] EXCEPT !.pc = "mintSend",
                                  !.preparedTx = Some(PreparedTransaction(call[p].txRequest[1])),
                                  !.log = Append(@, "send")]]
    /\ UNCHANGED <<cache, registry, returned, calls>>

\* a rejected preparation reported as a failed broadcast
MintPrepareRejectsAsBroadcast(p) ==
    /\ call[p].pc = "mintPrepare"
    /\ call' = [call EXCEPT ![p] = Throw(call[p], Rejected("BroadcastFailed"))]
    /\ UNCHANGED <<cache, registry, returned, calls>>

MintPrepareRejects(p) ==
    /\ call[p].pc = "mintPrepare"
    /\ call' = [call EXCEPT ![p] = Throw(call[p], Rejected("PreparationFailed"))]
    /\ UNCHANGED <<cache, registry, returned, calls>>

\* a successful mint that stores the handle it used in the cache
MintSendReturnsCaching(p) ==
    /\ call[p].pc = "mintSend"
    /\ call' = [call EXCEPT ![p] =
                  Return(call[p], TransactionHash(call[p].preparedTx[1]))]
    /\ cache' = CacheSet(cache, call[p].mintRequest.contractAddress,
                         [contract |-> call[p].contract,
                          schema |-> IF call[p].op = "mintERC1155Token"
                                     THEN "ERC1155" ELSE "ERC721"])
    /\ UNCHANGED <<registry, returned, calls>>

\* sendTransaction answers a mint: the hash is returned
MintSendReturns(p) ==
    /\ call[p].pc = "mintSend"
    /\ call' = [call EXCEPT ![p] =
                  Return(call[p], TransactionHash(call[p].preparedTx[1]))]
    /\ UNCHANGED <<cache, registry, returned, calls>>

\* a failed broadcast answered by preparing and sending the mint again
MintSendRejectsRepreparing(p) ==
    /\ call[p].pc = "mintSend"
    /\ call' = [call EXCEPT ![p] =
                  [call[p] EXCEPT !.pc = "mintPrepare",
                                  !.preparedTx = Undefined,
                                  !.log = SubSeq(@, 1, Len(@) - 1)]]
    /\ UNCHANGED <<cache, registry, returned, calls>>

MintSendRejects(p) ==
    /\ call[p].pc = "mintSend"
    /\ call' = [call EXCEPT ![p] = Throw(call[p], Rejected("BroadcastFailed"))]
    /\ UNCHANGED <<cache, registry, returned, calls>>

\* createERC1155Collection is called: it makes the factory and awaits
\* wallet.getAddress()
CreateERC1155Collection(p, args) ==
    /\ call[p].pc \in {"idle", "done"}
    /\ calls > 0
    /\ \E arg \in args :
         call' = [call EXCEPT ![p] =
                    NewCreate("createERC1155Collection", "getAddress",
                              "LiqERC1155__factory", arg.createRequest,
                              arg.chainId, arg.pkOrSigner)]
    /\ calls' = calls - 1
    /\ UNCHANGED <<cache, registry, returned>>

\* wallet.getAddress() answers: contractFactory.deploy(uri) is called
CreateGetAddressReturns(p) ==
    /\ call[p].pc = "createGetAddress"
    /\ LET rec == call[p]
           wallet == getWallet(rec.pkOrSigner, rec.chainId)
       IN  call' = [call EXCEPT ![p] =
                      [rec EXCEPT !.pc = "deploy",
                                  !.owner = Some(AddressOf(wallet)),
                                  !.deploy = Some(<<rec.createRequest.uri>>),
                                  !.log = Append(@, "deploy")]]
    /\ UNCHANGED <<cache, registry, returned, calls>>

CreateGetAddressRejects(p) ==
    /\ call[p].pc = "createGetAddress"
    /\ getWallet(call[p].pkOrSigner, call[p].chainId).kind = "JsonRpcSigner"
    /\ call' = [call EXCEPT ![p] = Throw(call[p], Rejected("getAddress"))]
    /\ UNCHANGED <<cache, registry, returned, calls>>

\* createERC721Collection is called: it makes the factory and awaits
\* contractFactory.deploy(tokenName, tokenSymbol)
CreateERC721Collection(p, args) ==
    /\ call[p].pc \in {"idle", "done"}
    /\ calls > 0
    /\ \E arg \in args :
         call' = [call EXCEPT ![p] =
                    [NewCreate("createERC721Collection", "deploy",
                               "LiqERC721__factory", arg.createRequest,
                               arg.chainId, arg.pkOrSigner)
                       EXCEPT !.deploy = Some(<<arg.createRequest.tokenName,
                                               arg.createRequest.tokenSymbol>>)]]
    /\ calls' = calls - 1
    /\ UNCHANGED <<cache, registry, returned>>

\* deploy answers: the hash of the deployment transaction is returned
DeployReturns(p) ==
    /\ call[p].pc = "deploy"
    /\ call' = [call EXCEPT ![p] =
                  Return(call[p],
                         TransactionHash(DeployTransaction(call[p].contractFactory,
                                                           call[p].deploy[1])))]
    /\ UNCHANGED <<cache, registry, returned, calls>>

DeployRejects(p) ==
    /\ call[p].pc = "deploy"
    /\ call' = [call EXCEPT ![p] = Throw(call[p], Rejected("DeploymentFailed"))]
    /\ UNCHANGED <<cache, registry, returned, calls>>

\* two concurrent callers making calls of any of the five operations
InitOps ==
    /\ cache = [a \in {} |-> Undefined]
    /\ call = [p \in Procs |-> [pc |-> "idle"]]
    /\ registry = [k \in {} |-> "UNKNOWN"]
    /\ returned = [k \in {} |-> Undefined]
    /\ calls = OpsCalls

NextOps ==
    \/ \E p \in DOMAIN call : TransferNft(p, ConcurrentArgs)
    \/ \E p \in DOMAIN call : GetNftTypeReturns(p)
    \/ \E p \in DOMAIN call : GetNftTypeRejects(p)
    \/ \E p \in DOMAIN call : GetAddressReturns(p)
    \/ \E p \in DOMAIN call : GetAddressRejects(p)
    \/ \E p \in DOMAIN call : PopulateReturns(p)
    \/ \E p \in DOMAIN call : PopulateRejects(p)
    \/ \E p \in DOMAIN call : PrepareReturns(p)
    \/ \E p \in DOMAIN call : PrepareRejects(p)
    \/ \E p \in DOMAIN call : SendReturns(p)
    \/ \E p \in DOMAIN call : SendRejects(p)
    \/ \E p \in DOMAIN call : MintERC1155Token(p, MintERC1155Args)
    \/ \E p \in DOMAIN call : MintERC721Token(p, MintERC721Args)
    \/ \E p \in DOMAIN call : MintGetAddressReturns(p)
    \/ \E p \in DOMAIN call : MintGetAddressRejects(p)
    \/ \E p \in DOMAIN call : MintPopulateReturns(p)
    \/ \E p \in DOMAIN call : MintPopulateRejects(p)
    \/ \E p \in DOMAIN call : MintPrepareReturns(p)
    \/ \E p \in DOMAIN call : MintPrepareRejects(p)
    \/ \E p \in DOMAIN call : MintSendReturns(p)
    \/ \E p \in DOMAIN call : MintSendRejects(p)
    \/ \E p \in DOMAIN call : CreateERC1155Collection(p, CreateERC1155Args)
    \/ \E p \in DOMAIN call : CreateGetAddressReturns(p)
    \/ \E p \in DOMAIN call : CreateGetAddressRejects(p)
    \/ \E p \in DOMAIN call : CreateERC721Collection(p, CreateERC721Args)
    \/ \E p \in DOMAIN call : DeployReturns(p)
    \/ \E p \in DOMAIN call : DeployRejects(p)

SpecOps == InitOps /\ [][NextOps]_vars

\* the steps in which a collaborator answers or rejects the request caller
\* p's call is waiting for
Answers(p) ==
    \/ GetNftTypeReturns(p)
    \/ GetNftTypeRejects(p)
    \/ GetAddressReturns(p)
    \/ GetAddressRejects(p)
    \/ PopulateReturns(p)
    \/ PopulateRejects(p)
    \/ PrepareReturns(p)
    \/ PrepareRejects(p)
    \/ SendReturns(p)
    \/ SendRejects(p)
    \/ MintGetAddressReturns(p)
    \/ MintGetAddressRejects(p)
    \/ MintPopulateReturns(p)
    \/ MintPopulateRejects(p)
    \/ MintPrepareReturns(p)
    \/ MintPrepareRejects(p)
    \/ MintSendReturns(p)
    \/ MintSendRejects(p)
    \/ CreateGetAddressReturns(p)
    \/ CreateGetAddressRejects(p)
    \/ DeployReturns(p)
    \/ DeployRejects(p)

\* the calls on the contract 0xABC
OnABC(args) ==
    {arg \in args :
        \/ "transferRequest" \in DOMAIN arg
              /\ arg.transferRequest.contractAddress = "0xABC"
              /\ arg.chainId = 1
        \/ "mintRequest" \in DOMAIN arg
              /\ arg.mintRequest.contractAddress = "0xABC"}

\* two concurrent callers, the transfers and mints being those on 0xABC
NextFair ==
    \/ \E p \in DOMAIN call : TransferNft(p, OnABC(ConcurrentArgs))
    \/ \E p \in DOMAIN call : GetNftTypeReturns(p)
    \/ \E p \in DOMAIN call : GetNftTypeRejects(p)
    \/ \E p \in DOMAIN call : GetAddressReturns(p)
    \/ \E p \in DOMAIN call : GetAddressRejects(p)
    \/ \E p \in DOMAIN call : PopulateReturns(p)
    \/ \E p \in DOMAIN call : PopulateRejects(p)
    \/ \E p \in DOMAIN call : PrepareReturns(p)
    \/ \E p \in DOMAIN call : PrepareRejects(p)
    \/ \E p \in DOMAIN call : SendReturns(p)
    \/ \E p \in DOMAIN call : SendRejects(p)
    \/ \E p \in DOMAIN call : MintERC1155Token(p, OnABC(MintERC1155Args))
    \/ \E p \in DOMAIN call : MintERC721Token(p, OnABC(MintERC721Args))
    \/ \E p \in DOMAIN call : MintGetAddressReturns(p)
    \/ \E p \in DOMAIN call : MintGetAddressRejects(p)
    \/ \E p \in DOMAIN call : MintPopulateReturns(p)
    \/ \E p \in DOMAIN call : MintPopulateRejects(p)
    \/ \E p \in DOMAIN call : MintPrepareReturns(p)
    \/ \E p \in DOMAIN call : MintPrepareRejects(p)
    \/ \E p \in DOMAIN call : MintSendReturns(p)
    \/ \E p \in DOMAIN call : MintSendRejects(p)
    \/ \E p \in DOMAIN call : CreateERC1155Collection(p, CreateERC1155Args)
    \/ \E p \in DOMAIN call : CreateGetAddressReturns(p)
    \/ \E p \in DOMAIN call : CreateGetAddressRejects(p)
    \/ \E p \in DOMAIN call : CreateERC721Collection(p, CreateERC721Args)
    \/ \E p \in DOMAIN call : DeployReturns(p)
    \/ \E p \in DOMAIN call : DeployRejects(p)

\* every awaited request is answered or rejected in the end, and the
\* continuation of the await then runs
SpecFair == InitOps /\ [][NextFair]_vars /\ \A p \in Procs : WF_vars(Answers(p))

\* ------------------------------------------------------------ properties
Active(p) == call[p].pc # "idle"

InLog(rec, name) == \E i \in 1..Len(rec.log) : rec.log[i] = name

Failed(rec, name) ==
    /\ rec.pc = "done"
    /\ ~rec.result[1].ok
    /\ rec.result[1].value.error = name

Succeeded(rec) == rec.pc = "done" /\ rec.result[1].ok

KeyOf(rec) == <<rec.contractAddress, rec.chainId>>

\* the owner transferNft derives for a call
OwnerOf(rec) == AddressOf(getWallet(rec.pkOrSigner, rec.chainId))

\* the step in which caller p starts a call
Starts(p) ==
    /\ call[p].pc \in {"idle", "done"}
    /\ call'[p].pc \in {"getNftType", "getAddress"}

\* C1: a call of cacheGet for (A, c) made after a cacheGet for (A, c) has
\* returned makes no getNftType query and returns the NftInfo that first
\* call returned.
C1_SecondResolveSameBinding ==
    \A p \in DOMAIN call :
        (Active(p) /\ call[p].again) =>
            /\ ~InLog(call[p], "getNftType")
            /\ call[p].info = Some(returned[KeyOf(call[p])])

\* C2: when getNftType answers UNKNOWN, cacheGet throws the "is not an NFT
\* contract" error naming the address, and right after it the cache holds no
\* entry for that address.
C2_UnknownRejectedAndUncached ==
    [][\A p \in DOMAIN call :
          (/\ call[p].pc = "getNftType"
           /\ call'[p].pc # "getNftType"
           /\ call'[p].nftType = Some("UNKNOWN")) =>
              /\ Failed(call'[p], "NotAnNftContract")
              /\ call'[p].result[1].value.message =
                    call[p].contractAddress \o " is not an NFT contract"
              /\ call[p].contractAddress \notin DOMAIN cache']_vars

\* C3: on an ERC721 contract a tokenIDs list of a length other than 1 ends the
\* call with the InvalidTransferShape error naming the joined ids, before any
\* populateTransaction, prepareTransaction or sendTransaction request; a list
\* of length 1 builds safeTransferFrom(owner, receiver, tokenIDs[0]) whatever
\* amounts is.
C3_SingleOwnerArity ==
    \A p \in DOMAIN call :
        (Active(p) /\ Defined(call[p].owner)
                   /\ call[p].info[1].schema = "ERC721") =>
            IF Len(call[p].tokenIDs) # 1
            THEN /\ Failed(call[p], "InvalidTransferShape")
                 /\ call[p].result[1].value.message =
                       "ERC 721 transfer supports exactly 1 tokenID, received "
                       \o Join(call[p].tokenIDs)
                 /\ ~InLog(call[p], "populate")
                 /\ ~InLog(call[p], "prepare")
                 /\ ~InLog(call[p], "send")
            ELSE /\ InLog(call[p], "populate")
                 /\ call[p].populate[1].method =
                       "safeTransferFrom(address,address,uint256)"
                 /\ call[p].populate[1].args =
                       [from |-> OwnerOf(call[p]), to |-> call[p].receiver,
                        tokenId |-> Some(call[p].tokenIDs[1])]

C3_Witness ==
    \E p \in DOMAIN call :
        /\ Active(p)
        /\ Defined(call[p].info)
        /\ call[p].info[1].schema = "ERC721"
        /\ Len(call[p].tokenIDs) = 5
        /\ Failed(call[p], "InvalidTransferShape")

\* C4: on an ERC1155 contract, with amounts given, more than one token id
\* builds safeBatchTransferFrom(owner, receiver, tokenIDs, amounts, "0x") and
\* exactly one builds safeTransferFrom(owner, receiver, tokenIDs[0],
\* amounts[0], "0x"); the batch call is built only for more than one id; owner
\* is the signer's address and receiver the request's.
C4_BatchOrSingle ==
    \A p \in DOMAIN call :
        (Active(p) /\ Defined(call[p].owner)
                   /\ call[p].info[1].schema = "ERC1155") =>
            /\ (Defined(call[p].amounts) /\ Len(call[p].tokenIDs) > 1) =>
                  /\ Defined(call[p].populate)
                  /\ call[p].populate[1].method = "safeBatchTransferFrom"
                  /\ call[p].populate[1].args =
                        [from |-> OwnerOf(call[p]), to |-> call[p].receiver,
                         ids |-> call[p].tokenIDs, amounts |-> call[p].amounts,
                         data |-> "0x"]
            /\ (Defined(call[p].amounts) /\ Len(call[p].tokenIDs) = 1) =>
                  /\ Defined(call[p].populate)
                  /\ call[p].populate[1].method = "safeTransferFrom"
                  /\ call[p].populate[1].args =
                        [from |-> OwnerOf(call[p]), to |-> call[p].receiver,
                         id |-> Some(call[p].tokenIDs[1]),
                         amount |-> At0(call[p].amounts[1]),
                         data |-> "0x"]
            /\ (Defined(call[p].populate)
                  /\ call[p].populate[1].method = "safeBatchTransferFrom") =>
                  Len(call[p].tokenIDs) > 1

C4_Witness ==
    \E p \in DOMAIN call :
        /\ Active(p)
        /\ Defined(call[p].populate)
        /\ call[p].info[1].schema = "ERC1155"
        /\ call[p].tokenIDs = <<1, 2>>
        /\ call[p].amounts = Some(<<5, 10>>)
        /\ call[p].populate[1].method = "safeBatchTransferFrom"

\* the errors of the spec's taxonomy that transferNft can end with
NamedErrors ==
    {"NotAnNftContract", "InvalidTransferShape", "UnsupportedSchema",
     "PreparationFailed", "BroadcastFailed"}

\* the other errors a transferNft call can end with: the TypeError of reading
\* amounts[0] of an absent amounts, and a rejected getNftType, getAddress or
\* populateTransaction
OtherErrors == {"TypeError", "getNftType", "getAddress", "populateTransaction"}

\* a finished call that returned a hash built, prepared and broadcast a
\* transfer call and returns the hash of that broadcast
BroadcastBuilt(rec) ==
    /\ Defined(rec.populate)
    /\ rec.populate[1].method \in
          {"safeTransferFrom(address,address,uint256)", "safeTransferFrom",
           "safeBatchTransferFrom"}
    /\ Defined(rec.tx) /\ rec.tx[1].data = rec.populate[1]
    /\ Defined(rec.preparedTx)
    /\ InLog(rec, "prepare") /\ InLog(rec, "send")
    /\ rec.result[1].value = TransactionHash(rec.preparedTx[1])

\* C5 as claimed: every finished transferNft call returned a hash of a built,
\* prepared and broadcast transfer call, or ended with one of the five named
\* errors.
C5_NamedOutcomeOnly ==
    \A p \in DOMAIN call :
        call[p].pc = "done" =>
            IF call[p].result[1].ok
            THEN BroadcastBuilt(call[p])
            ELSE call[p].result[1].value.error \in NamedErrors

\* C5 as amended: every finished transferNft call returned a hash of a built,
\* prepared and broadcast transfer call, or ended with an error: one of the
\* five named ones, the TypeError, or a rejected getNftType, getAddress or
\* populateTransaction.
C5_LoudOutcome ==
    \A p \in DOMAIN call :
        call[p].pc = "done" =>
            IF call[p].result[1].ok
            THEN BroadcastBuilt(call[p])
            ELSE call[p].result[1].value.error \in NamedErrors \cup OtherErrors

C5_Witness ==
    \E p \in DOMAIN call :
        /\ Active(p)
        /\ Succeeded(call[p])
        /\ call[p].info[1].schema = "ERC721"

\* C6: an ERC1155 transfer reaches prepareTransaction only if amounts is
\* given and as long as tokenIDs.
C6_MultiOwnerShape ==
    \A p \in DOMAIN call :
        (Active(p) /\ Defined(call[p].owner)
                   /\ call[p].info[1].schema = "ERC1155"
                   /\ InLog(call[p], "prepare")) =>
            /\ Defined(call[p].amounts)
            /\ Len(call[p].amounts[1]) = Len(call[p].tokenIDs)

\* the step in which p's call, past cacheGet, ends with one of the errors of
\* a failed transaction attempt
FailingStep(p) ==
    /\ call[p].pc \in {"getAddress", "populate", "prepare", "send"}
    /\ \/ Failed(call'[p], "InvalidTransferShape")
       \/ Failed(call'[p], "PreparationFailed")
       \/ Failed(call'[p], "BroadcastFailed")

\* the step in which p's getNftType answers ERC721 or ERC1155 and cacheGet
\* stores the NftInfo made from it
DetectionWrite(p) ==
    /\ call[p].pc = "getNftType"
    /\ call'[p].pc = "getAddress"
    /\ call'[p].nftType \in {Some("ERC721"), Some("ERC1155")}
    /\ call'[p].info[1].schema = call'[p].nftType[1]
    /\ cache' = CacheSet(cache, call[p].contractAddress, call'[p].info[1])

\* C7 as claimed: when a call fails at the shape check, at preparation or at
\* broadcast, the cache is what it was when the call's cacheGet returned.
C7_CacheAsAtResolve ==
    [][\A p \in DOMAIN call :
          FailingStep(p) => cache' = call[p].cacheThen[1]]_vars

\* C7 as amended: the cache changes only in a step that stores a detected
\* ERC721 or ERC1155 type, and the step in which a call fails at the shape
\* check, at preparation or at broadcast leaves the cache as it was.
C7_NoWriteOnFailure ==
    [][/\ \A p \in DOMAIN call : FailingStep(p) => cache' = cache
       /\ cache' # cache => \E p \in DOMAIN call : DetectionWrite(p)]_vars

C7_Witness ==
    \E p \in DOMAIN call :
        /\ Active(p)
        /\ Failed(call[p], "InvalidTransferShape")
        /\ InLog(call[p], "getNftType")
        /\ call[p].contractAddress \in DOMAIN cache
        /\ cache # call[p].cacheThen[1]

\* C8: once an address has a cache entry, the schema stored for it stays the
\* same in every later state.
C8_SchemaImmutable ==
    [][\A a \in DOMAIN cache :
          /\ a \in DOMAIN cache'
          /\ cache'[a].schema = cache[a].schema]_vars

\* C9: when two callers have both missed the cache for the same address and
\* getNftType has answered both with the same type, the cache entry and the
\* NftInfo each of the two calls got carry that type as their schema.
C9_SameAnswerSameSchema ==
    \A p, q \in DOMAIN call :
        (/\ p # q /\ Active(p) /\ Active(q)
         /\ call[p].contractAddress = call[q].contractAddress
         /\ Defined(call[p].nftType)
         /\ call[p].nftType # Some("UNKNOWN")
         /\ call[q].nftType = call[p].nftType) =>
            /\ cache[call[p].contractAddress].schema = call[p].nftType[1]
            /\ call[p].info[1].schema = call[p].nftType[1]
            /\ call[q].info[1].schema = call[p].nftType[1]

\* both calls queried getNftType and both stored an entry, the second write
\* replacing the first
C9_Witness ==
    \E p, q \in DOMAIN call :
        /\ p # q /\ Active(p) /\ Active(q)
        /\ call[p].contractAddress = call[q].contractAddress
        /\ Defined(call[p].nftType)
        /\ call[p].nftType # Some("UNKNOWN")
        /\ call[q].nftType = call[p].nftType
        /\ call[p].contractAddress \in DOMAIN call[q].cacheThen[1]
        /\ call[p].contractAddress \in DOMAIN call[p].cacheThen[1]
        /\ call[p].chainId # call[q].chainId
        /\ cache[call[p].contractAddress] = call[q].info[1]
        /\ call[p].info # call[q].info

\* C10: a call that starts when the cache holds an entry for its address gets
\* that entry, whatever chain it was made on, and makes no getNftType query.
C10_AddressOnlyKey ==
    [][\A p \in DOMAIN call :
          (Starts(p) /\ call'[p].contractAddress \in DOMAIN cache) =>
              /\ call'[p].info = Some(cache[call'[p].contractAddress])
              /\ ~InLog(call'[p], "getNftType")
              /\ cache' = cache
              /\ registry' = registry]_vars

\* a call on chain c2 got the entry made on another chain although getNftType
\* has answered UNKNOWN for the address on c2
C10_Witness ==
    \E p \in DOMAIN call :
        /\ Active(p)
        /\ Defined(call[p].info)
        /\ ~InLog(call[p], "getNftType")
        /\ call[p].info[1].contract.provider # call[p].chainId
        /\ KeyOf(call[p]) \in DOMAIN registry
        /\ registry[KeyOf(call[p])] = "UNKNOWN"

\* the requests of a transferNft call, in the order of its awaits
TransferSteps == <<"getNftType", "getAddress", "populate", "prepare", "send">>

\* the requests a call made are the first ones of steps, in that order
MadeInOrder(rec, steps) ==
    /\ Len(rec.log) <= Len(steps)
    /\ rec.log = SubSeq(steps, 1, Len(rec.log))

\* C11: the requests of a transferNft call are made in the order getNftType
\* (on a cache miss), getAddress, populateTransaction, prepareTransaction,
\* sendTransaction, the NftInfo being known before getAddress is asked;
\* prepareTransaction gets the populated call with from = the wallet's
\* address and the call's chainId; sendTransaction is asked only with the
\* transaction prepareTransaction answered; the hash returned is that of
\* this broadcast.
C11_StepOrder ==
    \A p \in DOMAIN call :
        Active(p) =>
            LET rec == call[p]
            IN  /\ MadeInOrder(rec, IF InLog(rec, "getNftType")
                                    THEN TransferSteps ELSE Tail(TransferSteps))
                /\ InLog(rec, "getAddress") => Defined(rec.info)
                /\ InLog(rec, "populate") => rec.owner = Some(OwnerOf(rec))
                /\ InLog(rec, "prepare") =>
                      /\ Defined(rec.tx)
                      /\ rec.tx[1].data = rec.populate[1]
                      /\ rec.txRequest =
                            Some([to |-> rec.contractAddress,
                                  data |-> rec.populate[1],
                                  from |-> OwnerOf(rec),
                                  chainId |-> rec.chainId])
                /\ Defined(rec.preparedTx) <=> InLog(rec, "send")
                /\ InLog(rec, "send") =>
                      rec.preparedTx = Some(PreparedTransaction(rec.txRequest[1]))
                /\ Succeeded(rec) =>
                      /\ rec.log = IF InLog(rec, "getNftType")
                                   THEN TransferSteps ELSE Tail(TransferSteps)
                      /\ rec.result[1].value = TransactionHash(rec.preparedTx[1])

\* a call that missed the cache made all five requests and returned the hash
C11_Witness ==
    \E p \in DOMAIN call :
        /\ Active(p)
        /\ Succeeded(call[p])
        /\ call[p].log = TransferSteps
        /\ call[p].txRequest[1].from = "0xpk"
        /\ call[p].txRequest[1].chainId = 137

MintOps == {"mintERC1155Token", "mintERC721Token"}

CreateOps == {"createERC1155Collection", "createERC721Collection"}

\* caller p takes a step of a call of one of the operations ops
StepOf(p, ops) ==
    /\ call'[p].pc # call[p].pc
    /\ call'[p].op \in ops

\* C12: a step of a mint or collection creation call leaves the cache (and
\* what getNftType has been asked) as it was and the call makes no getNftType
\* query; a mint works on a handle made for its own standard at the
\* request's address, whatever the cache holds for that address, and ends
\* with none of the errors of detection or dispatch.
C12_MintCreateBypassCache ==
    [][\A p \in DOMAIN call :
          StepOf(p, MintOps \cup CreateOps) =>
              /\ cache' = cache
              /\ registry' = registry
              /\ returned' = returned
              /\ ~InLog(call'[p], "getNftType")
              /\ call'[p].op \in MintOps =>
                    call'[p].contract =
                       Attach(IF call'[p].op = "mintERC1155Token"
                              THEN "LiqERC1155__factory" ELSE "LiqERC721__factory",
                              call'[p].mintRequest.contractAddress,
                              call'[p].chainId)
              /\ (call'[p].pc = "done" /\ ~call'[p].result[1].ok) =>
                    call'[p].result[1].value.error \in
                       {"getAddress", "populateTransaction", "PreparationFailed",
                        "BroadcastFailed", "DeploymentFailed"}]_vars

\* an ERC721 mint has returned a hash for an address the cache holds as
\* ERC1155
C12_Witness ==
    \E p \in DOMAIN call :
        /\ Active(p)
        /\ call[p].op = "mintERC721Token"
        /\ Succeeded(call[p])
        /\ call[p].mintRequest.contractAddress \in DOMAIN cache
        /\ cache[call[p].mintRequest.contractAddress].schema = "ERC1155"

\* no request is made twice
NoRepeat(log) == \A i, j \in 1..Len(log) : log[i] = log[j] => i = j

\* C13: a call of transferNft, of a mint or of a collection creation makes
\* each of its requests (getNftType, getAddress, populateTransaction,
\* prepareTransaction, sendTransaction or deploy) at most once; the step in
\* which a call ends with an error makes no request, and a call that has
\* ended makes none.
C13_NoRetry ==
    [][\A p \in DOMAIN call :
          /\ call'[p].pc # "idle" => NoRepeat(call'[p].log)
          /\ (call[p].pc \notin {"idle", "done"} /\ call'[p].pc = "done"
                /\ ~call'[p].result[1].ok) =>
                call'[p].log = call[p].log
          /\ (call[p].pc = "done" /\ call'[p].pc = "done") =>
                call'[p].log = call[p].log]_vars

\* a transfer that made all five requests ended with the failed broadcast,
\* and a collection creation ended with the failed deployment
C13_Witness ==
    \E p, q \in DOMAIN call :
        /\ Active(p) /\ Active(q)
        /\ call[p].op = "transferNft"
        /\ Failed(call[p], "BroadcastFailed")
        /\ call[p].log = TransferSteps
        /\ call[q].op = "createERC1155Collection"
        /\ Failed(call[q], "DeploymentFailed")
        /\ call[q].log = <<"getAddress", "deploy">>

C15_NoEviction ==
    [][/\ DOMAIN cache \subseteq DOMAIN cache'
       /\ \A a \in DOMAIN cache' : cache'[a].contract.address = a]_vars

\* both addresses have an entry, the second stored while the first was there
C15_Witness ==
    /\ DOMAIN cache = Addresses
    /\ \E p \in DOMAIN call :
          /\ Active(p)
          /\ call[p].op = "transferNft"
          /\ Defined(call[p].cacheThen)
          /\ InLog(call[p], "getNftType")
          /\ DOMAIN call[p].cacheThen[1] = Addresses

\* C16: when every request is answered or rejected in the end, every call of
\* transferNft, of a mint or of a collection creation that has started ends,
\* with a hash or an error, whatever the other caller does.
C16_RunToCompletion ==
    \A p \in Procs :
        (call[p].pc \notin {"idle", "done"}) ~>
            (call[p].pc = "done" /\ Defined(call[p].result))

\* a mint has gone through all its requests and returned its hash while the
\* other caller's transfer is still waiting for getNftType
C16_Witness ==
    \E p, q \in DOMAIN call :
        /\ call[q].pc = "getNftType"
        /\ call[p].pc = "done"
        /\ call[p].op = "mintERC1155Token"
        /\ call[p].result[1].ok
        /\ calls = OpsCalls - 2

\* C17: every cache entry and every NftInfo a call got from cacheGet has the
\* schema ERC721 or ERC1155, and no transferNft call ends in the default
\* branch of the switch: a call whose getNftType answered UNKNOWN has ended
\* in cacheGet, with no NftInfo.
C17_NoUnknownEntry ==
    /\ \A a \in DOMAIN cache : cache[a].schema \in {"ERC721", "ERC1155"}
    /\ \A p \in DOMAIN call :
          (Active(p) /\ call[p].op = "transferNft") =>
              /\ Defined(call[p].info) =>
                    call[p].info[1].schema \in {"ERC721", "ERC1155"}
              /\ call[p].nftType = Some("UNKNOWN") => ~Defined(call[p].info)
              /\ ~Failed(call[p], "UnsupportedSchema")

\* getNftType has answered UNKNOWN to one call and a type to another, which
\* has passed the switch
C17_Witness ==
    \E p, q \in DOMAIN call :
        /\ Active(p) /\ Active(q)
        /\ call[p].nftType = Some("UNKNOWN")
        /\ call[q].nftType = Some("ERC1155")
        /\ Defined(call[q].populate)
        /\ call[q].contractAddress \in DOMAIN cache

\* C18: a transferNft call that got a detected type from getNftType and then
\* ended at the length check, at prepareTransaction or at sendTransaction
\* leaves an entry for its address in the cache; a call on that address
\* started after such an end gets the cached entry and makes no getNftType
\* query.
C18_EntryOutlivesFailure ==
    \A p \in DOMAIN call :
        (Active(p) /\ call[p].op = "transferNft") =>
            /\ EndedAfterDetection(call[p], call[p].contractAddress) =>
                  call[p].contractAddress \in DOMAIN cache
            /\ call[p].afterFailure =>
                  /\ ~InLog(call[p], "getNftType")
                  /\ ~Defined(call[p].nftType)
                  /\ call[p].contractAddress \in DOMAIN call[p].cacheThen[1]
                  /\ call[p].info =
                        Some(call[p].cacheThen[1][call[p].contractAddress])

\* a call ended at the failed broadcast after its own detection, and the
\* next call on the address has gone on with the entry that detection stored
C18_Witness ==
    \E p, q \in DOMAIN call :
        /\ Active(p) /\ Active(q)
        /\ EndedAfterDetection(call[p], call[q].contractAddress)
        /\ Failed(call[p], "BroadcastFailed")
        /\ call[q].op = "transferNft"
        /\ call[q].afterFailure
        /\ call[q].info = call[p].info
        /\ Defined(call[q].owner)

\* C19: a transferNft call whose getNftType answered UNKNOWN has ended with
\* the NotAnNftContract error having made that one request only: no wallet
\* address was asked for and nothing was built, prepared or sent; and no call
\* ends with that error in any other way.
C19_UnknownEndsBeforeSigner ==
    \A p \in DOMAIN call :
        (Active(p) /\ call[p].op = "transferNft") =>
            /\ call[p].nftType = Some("UNKNOWN") =>
                  Failed(call[p], "NotAnNftContract")
            /\ Failed(call[p], "NotAnNftContract") =>
                  /\ call[p].nftType = Some("UNKNOWN")
                  /\ call[p].log = <<"getNftType">>
                  /\ ~Defined(call[p].owner)
                  /\ ~Defined(call[p].populate)
                  /\ ~Defined(call[p].txRequest)
                  /\ ~Defined(call[p].preparedTx)

\* a call made with a signer, whose address would have to be asked for,
\* ended with the error on an address the cache has no entry for
C19_Witness ==
    \E p \in DOMAIN call :
        /\ Active(p)
        /\ Failed(call[p], "NotAnNftContract")
        /\ call[p].pkOrSigner \in Signers
        /\ call[p].contractAddress \notin DOMAIN cache

\* an ERC1155 transfer of no token id, with amounts given, past the switch
EmptyIds(p) ==
    /\ Active(p)
    /\ call[p].op = "transferNft"
    /\ Defined(call[p].owner)
    /\ call[p].info[1].schema = "ERC1155"
    /\ call[p].tokenIDs = <<>>
    /\ Defined(call[p].amounts)

====
